---------------------------- MODULE Spec2Model ----------------------------
(***************************************************************************)
(* A model of the image editor of src/main.rs: struct ImageProcessor, its  *)
(* operations (crop, rotate, adjust_brightness, blur, grayscale, invert,   *)
(* adjust_contrast, overlay_image, save) and the pipeline of main.         *)
(*                                                                         *)
(* An image is a record [w, h, px]: px maps <<i, j>> (column, row) to a    *)
(* pixel <<r, g, b, a>> of 8-bit channels (the Rgba<u8> buffer that every  *)
(* operation works on after to_rgba8).                                     *)
(*                                                                         *)
(* u32 arguments are pairs <<hi, lo>> of 16-bit halves, so that the whole  *)
(* 32-bit range and its wrap-around are represented.  f32 values are       *)
(* records [k, s, m, e] (kind, sign, 24-bit significand, exponent of the   *)
(* significand's unit), and the f32 operations round to nearest, ties to   *)
(* even, as IEEE 754 binary32 does.                                        *)
(***************************************************************************)
EXTENDS Integers, Sequences, FiniteSets, TLC

(***************************************************************************)
(* Bounds of the model.                                                    *)
(***************************************************************************)
MaxDim == 2
MaxOps == 2

(***************************************************************************)
(* u32: 32-bit unsigned integers as <<hi, lo>>, each half in 0 .. 2^16-1.  *)
(***************************************************************************)
HalfBits == 16

Half == 2 ^ HalfBits

U32(n) == <<n \div Half, n % Half>>

U32Max == <<Half - 1, Half - 1>>

IsSmall(a) == a[1] = 0

ToNat(a) == a[2]

U32Le(a, b) == a[1] < b[1] \/ (a[1] = b[1] /\ a[2] <= b[2])

U32Gt(a, b) == ~U32Le(a, b)

\* a + b overflows the 32 bits
U32Carry(a, b) == a[1] + b[1] + ((a[2] + b[2]) \div Half) >= Half

\* a + b modulo 2^32 (the sum of a build without overflow checks)
U32WrapAdd(a, b) ==
    <<(a[1] + b[1] + ((a[2] + b[2]) \div Half)) % Half, (a[2] + b[2]) % Half>>

U32Min(a, b) == IF U32Le(a, b) THEN a ELSE b

(***************************************************************************)
(* f32: IEEE 754 binary32 arithmetic, round to nearest, ties to even.      *)
(* A number is (-1)^s * m * 2^e with 2^23 <= m < 2^24.                     *)
(***************************************************************************)
MantBits == 24

MaxExp == 128

Two24 == 2 ^ MantBits

Two23 == 2 ^ (MantBits - 1)

F32Zero == [k |-> "zero", s |-> 0, m |-> 0, e |-> 0]

F32Inf(s) == [k |-> "inf", s |-> s, m |-> 0, e |-> 0]

RECURSIVE BitLen(_)
BitLen(n) == IF n = 0 THEN 0 ELSE 1 + BitLen(n \div 2)

\* n / 2^sh rounded to the nearest integer, ties to even
RoundShift(n, sh) ==
    IF sh = 0 THEN n
    ELSE LET q == n \div (2 ^ sh)
             r == n % (2 ^ sh)
             half == 2 ^ (sh - 1)
         IN  IF r > half \/ (r = half /\ q % 2 = 1) THEN q + 1 ELSE q

\* The f32 nearest to (-1)^s * n * 2^e, for 0 <= n < 2^31
F32Round(s, n, e) ==
    IF n = 0 THEN F32Zero
    ELSE LET len == BitLen(n)
             sh == IF len > MantBits THEN len - MantBits ELSE 0
             r == IF len > MantBits THEN RoundShift(n, sh)
                  ELSE n * (2 ^ (MantBits - len))
             e1 == IF len > MantBits THEN e + sh ELSE e - (MantBits - len)
             m2 == IF r = Two24 THEN Two23 ELSE r
             e2 == IF r = Two24 THEN e1 + 1 ELSE e1
         IN  IF e2 + MantBits > MaxExp THEN F32Inf(s)
             ELSE [k |-> "num", s |-> s, m |-> m2, e |-> e2]

\* `v as f32` for a u8
F32FromU8(v) == F32Round(0, v, 0)

F32Neg(x) == [x EXCEPT !.s = 1 - x.s]

\* y's significand with three extra bits, shifted right by d, the bits
\* shifted out kept as a sticky lowest bit
ShiftSticky(n, d) ==
    IF d >= MantBits + 3 THEN 1
    ELSE LET q == n \div (2 ^ d)
         IN  IF n % (2 ^ d) # 0 /\ q % 2 = 0 THEN q + 1 ELSE q

\* x + y for two numbers, x of the larger or equal exponent
F32AddAligned(x, y) ==
    LET bx == x.m * 8
        by == ShiftSticky(y.m * 8, x.e - y.e)
    IN  IF x.s = y.s THEN F32Round(x.s, bx + by, x.e - 3)
        ELSE IF bx >= by THEN F32Round(x.s, bx - by, x.e - 3)
        ELSE F32Round(y.s, by - bx, x.e - 3)

F32Add(x, y) ==
    IF x.k = "inf" THEN x
    ELSE IF y.k = "inf" THEN y
    ELSE IF x.k = "zero" THEN y
    ELSE IF y.k = "zero" THEN x
    ELSE IF x.e >= y.e THEN F32AddAligned(x, y)
    ELSE F32AddAligned(y, x)

F32Sub(x, y) == F32Add(x, F32Neg(y))

\* x * y: the 48-bit product of the significands as hi * 2^24 + lo
F32Mul(x, y) ==
    LET s == (x.s + y.s) % 2
    IN  IF x.k = "zero" \/ y.k = "zero" THEN F32Zero
        ELSE IF x.k = "inf" \/ y.k = "inf" THEN F32Inf(s)
        ELSE LET ah == x.m \div 4096
                 al == x.m % 4096
                 bh == y.m \div 4096
                 bl == y.m % 4096
                 mid == ah * bl + al * bh
                 low == al * bl + (mid % 4096) * 4096
                 lo == low % Two24
                 hi == ah * bh + (mid \div 4096) + (low \div Two24)
                 \* hi in 2^22 .. 2^24 - 1
                 big == hi >= Two23
                 q == IF big THEN hi ELSE 2 * hi + (lo \div Two23)
                 r == IF big THEN lo ELSE lo % Two23
                 half == IF big THEN Two23 ELSE Two23 \div 2
                 up == r > half \/ (r = half /\ q % 2 = 1)
                 e == x.e + y.e + (IF big THEN MantBits ELSE MantBits - 1)
             IN  F32Round(s, IF up THEN q + 1 ELSE q, e)

\* n steps of the long division of rem by d: <<quotient, remainder>>
RECURSIVE LongDiv(_, _, _, _)
LongDiv(q, rem, d, n) ==
    IF n = 0 THEN <<q, rem>>
    ELSE IF 2 * rem >= d THEN LongDiv(2 * q + 1, 2 * rem - d, d, n - 1)
    ELSE LongDiv(2 * q, 2 * rem, d, n - 1)

\* x / y for a number or zero x and a number y
F32Div(x, y) ==
    IF x.k = "zero" THEN F32Zero
    ELSE LET s == (x.s + y.s) % 2
             n == IF x.m >= y.m THEN MantBits - 1 ELSE MantBits
             qr == LongDiv(IF x.m >= y.m THEN 1 ELSE 0,
                           IF x.m >= y.m THEN x.m - y.m ELSE x.m, y.m, n)
             q == qr[1]
             up == 2 * qr[2] > y.m \/ (2 * qr[2] = y.m /\ q % 2 = 1)
         IN  F32Round(s, IF up THEN q + 1 ELSE q, x.e - y.e - n)

\* x < y
F32Lt(x, y) ==
    LET neg(z) == z.k # "zero" /\ z.s = 1
        pos(z) == z.k # "zero" /\ z.s = 0
        \* |a| < |b| for two non-zero values
        maglt(a, b) == IF a.k = "inf" THEN FALSE
                       ELSE IF b.k = "inf" THEN TRUE
                       ELSE a.e < b.e \/ (a.e = b.e /\ a.m < b.m)
    IN  IF neg(x) THEN ~neg(y) \/ maglt(y, x)
        ELSE IF pos(x) THEN pos(y) /\ maglt(x, y)
        ELSE pos(y)

\* f32::min and f32::max (no NaN arises from the editor's finite inputs)
F32Min(x, y) == IF F32Lt(y, x) THEN y ELSE x

F32Max(x, y) == IF F32Lt(x, y) THEN y ELSE x

\* `x as u8`: truncation toward zero, saturating at 0 and 255
F32ToU8(x) ==
    IF x.k = "zero" \/ x.s = 1 THEN 0
    ELSE IF x.k = "inf" \/ x.e >= 0 THEN 255
    ELSE IF 0 - x.e >= MantBits THEN 0
    ELSE LET t == x.m \div (2 ^ (0 - x.e))
         IN  IF t > 255 THEN 255 ELSE t

F32Of255 == F32FromU8(255)

F32OfHalf == F32Round(0, 1, -1)

F32OfOne == F32FromU8(1)


(***************************************************************************)
(* The per-channel arithmetic of the pixel loops.                          *)
(***************************************************************************)
\* A faulty variant: the product cast through a wider integer, so that it
\* wraps modulo 256 instead of saturating
BrightnessChannelWrapping(v, factor) ==
    LET x == F32Mul(F32FromU8(v), factor)
    IN  IF x.k = "zero" \/ x.s = 1 \/ x.k = "inf" THEN 0
        ELSE IF x.e >= 8 \/ 0 - x.e >= MantBits THEN 0
        ELSE IF x.e >= 0 THEN ((x.m % 256) * (2 ^ x.e)) % 256
        ELSE (x.m \div (2 ^ (0 - x.e))) % 256

\* main.rs:63  (pixel[0] as f32 * factor).min(255.0) as u8
BrightnessChannel(v, factor) ==
    F32ToU8(F32Min(F32Mul(F32FromU8(v), factor), F32Of255))

\* main.rs:87  255 - pixel[0]
InvertChannel(v) == 255 - v

\* main.rs:100-101
ContrastChannel(v, factor) ==
    LET scaled ==
            F32Mul(F32Add(F32Mul(F32Sub(F32Div(F32FromU8(v), F32Of255),
                                        F32OfHalf),
                                 factor),
                          F32OfHalf),
                   F32Of255)
    IN  F32ToU8(F32Min(F32Max(scaled, F32Zero), F32Of255))

\* main.rs:135-139  one channel of the blend, a the overlay pixel's alpha
BlendChannel(a, b, s) ==
    LET alpha == F32Div(F32FromU8(a), F32Of255)
    IN  F32ToU8(F32Add(F32Mul(F32Sub(F32OfOne, alpha), F32FromU8(b)),
                       F32Mul(alpha, F32FromU8(s))))

(***************************************************************************)
(* Images.                                                                 *)
(***************************************************************************)
Positions(w, h) == (0 .. w - 1) \X (0 .. h - 1)

MkImage(w, h, px) == [w |-> w, h |-> h, px |-> px]

NoImage == MkImage(0, 0, [p \in Positions(0, 0) |-> <<0, 0, 0, 0>>])

Alphas == <<255, 128, 0, 65>>

\* The n-th pixel of the test patterns: distinct colours, varied alpha
GenPixel(n) ==
    <<(37 * n + 10) % 256, (101 * n + 50) % 256, (13 * n + 200) % 256,
      Alphas[(n % Len(Alphas)) + 1]>>

\* A w x h image no two pixels of which are equal
PatternImage(w, h, k) ==
    MkImage(w, h, [p \in Positions(w, h) |-> GenPixel(k + p[1] + (MaxDim + 1) * p[2])])

\* The same colours with the alphas of the given kind
OverlayAlpha(kind, n, a) ==
    CASE kind = "opaque" -> 255
      [] kind = "transparent" -> 0
      [] kind = "mixed" -> IF n % 2 = 0 THEN 255 ELSE 0
      [] OTHER -> IF a \in {0, 255} THEN 254 ELSE a

OverlayPattern(w, h, kind) ==
    MkImage(w, h,
            [p \in Positions(w, h) |->
                LET n == 5 + p[1] + (MaxDim + 1) * p[2]
                    g == GenPixel(n)
                IN  <<g[1], g[2], g[3], OverlayAlpha(kind, n, g[4])>>])

Dims == 1 .. MaxDim

StartImages == {PatternImage(w, h, 0) : w \in Dims, h \in Dims}

PixelImage(pixel) == MkImage(1, 1, [p \in Positions(1, 1) |-> pixel])

\* One-pixel images in which every channel takes every value
ChannelImages ==
    {PixelImage(<<v, v, v, 255>>) : v \in 0 .. 255}
        \cup {PixelImage(<<v, 255 - v, (v + 128) % 256, 128>>) : v \in 0 .. 255}

OverlaysOf(kinds) ==
    {OverlayPattern(w, h, kind) : w \in Dims, h \in Dims, kind \in kinds}

\* One-pixel overlays of partial alpha
BlendOverlays ==
    {PixelImage(<<c[1], c[2], c[3], a>>) :
        c \in {<<0, 128, 255>>, <<3, 51, 200>>}, a \in {1, 65, 128, 254}}

\* u32 arguments: small ones around the image sizes, and the top of the range
Origins == {U32(n) : n \in 0 .. MaxDim - 1} \cup {U32Max}

Sizes == {U32(n) : n \in 0 .. MaxDim} \cup {U32Max}

\* f32 arguments
BrightnessFactors ==
    {F32Round(1, 1, 0), F32Zero, F32Round(0, 1, -1), F32OfOne,
     F32Round(0, 3, -1), F32Round(0, 2, 0), F32Round(0, 11744051, -24),
     F32Round(0, 300, 0), F32Round(0, 16777215, 104)}

ContrastFactors ==
    {F32Zero, F32OfOne, F32Round(0, 1, -1), F32Round(0, 3, -1), F32Round(0, 2, 0)}

Sigmas == {F32Zero, F32Round(1, 1, 0), F32Round(0, 19, -3)}

Angles == {F32Zero, F32Round(0, 45, 0), F32Round(0, 180, 0)}

(***************************************************************************)
(* The operations on images.                                               *)
(***************************************************************************)
\* A faulty variant: >= for >, which refuses a region that ends at the edge
CropCheckOffByOne(img, x, y, w, h, checks) ==
    IF checks /\ U32Carry(x, w) THEN "panic"
    ELSE IF U32Le(U32(img.w), U32WrapAdd(x, w)) THEN "err"
    ELSE IF checks /\ U32Carry(y, h) THEN "panic"
    ELSE IF U32Le(U32(img.h), U32WrapAdd(y, h)) THEN "err"
    ELSE "ok"

\* main.rs:31  "panic" (an overflow-checked build), "err" or "ok"
CropCheck(img, x, y, w, h, checks) ==
    IF checks /\ U32Carry(x, w) THEN "panic"
    ELSE IF U32Gt(U32WrapAdd(x, w), U32(img.w)) THEN "err"
    ELSE IF checks /\ U32Carry(y, h) THEN "panic"
    ELSE IF U32Gt(U32WrapAdd(y, h), U32(img.h)) THEN "err"
    ELSE "ok"

\* image::imageops::crop clamps the rectangle to the image: <<x, y, w, h>>
CropDimms(img, x, y, w, h) ==
    LET cx == ToNat(U32Min(x, U32(img.w)))
        cy == ToNat(U32Min(y, U32(img.h)))
    IN  <<cx, cy, ToNat(U32Min(w, U32(img.w - cx))),
          ToNat(U32Min(h, U32(img.h - cy)))>>

\* main.rs:37  self.image.crop(x, y, width, height)
LibCrop(img, x, y, w, h) ==
    LET d == CropDimms(img, x, y, w, h)
    IN  MkImage(d[3], d[4],
                [p \in Positions(d[3], d[4]) |-> img.px[<<d[1] + p[1], d[2] + p[2]>>]])

\* The image with every pixel p replaced by to[p]
WithPixels(img, to) == MkImage(img.w, img.h, [p \in DOMAIN img.px |-> to[img.px[p]]])

PixelsOf(img) == {img.px[p] : p \in DOMAIN img.px}

\* main.rs:61-67
BrightnessImage(img, factor) ==
    WithPixels(img,
               [p \in PixelsOf(img) |->
                   <<BrightnessChannel(p[1], factor), BrightnessChannel(p[2], factor),
                     BrightnessChannel(p[3], factor), p[4]>>])

\* A faulty variant: the loop inverts alpha as well
InvertImageAllChannels(img) ==
    WithPixels(img,
               [p \in PixelsOf(img) |->
                   <<InvertChannel(p[1]), InvertChannel(p[2]), InvertChannel(p[3]),
                     InvertChannel(p[4])>>])

\* main.rs:85-91
InvertImage(img) ==
    WithPixels(img,
               [p \in PixelsOf(img) |->
                   <<InvertChannel(p[1]), InvertChannel(p[2]), InvertChannel(p[3]), p[4]>>])

\* main.rs:97-104
ContrastImage(img, factor) ==
    WithPixels(img,
               [p \in PixelsOf(img) |->
                   <<ContrastChannel(p[1], factor), ContrastChannel(p[2], factor),
                     ContrastChannel(p[3], factor), p[4]>>])

\* main.rs:79  grayscale() keeps alpha and sets R = G = B = luma
\* (the library's weights 0.2126, 0.7152, 0.0722)
GrayscaleImage(img) ==
    WithPixels(img,
               [p \in PixelsOf(img) |->
                   LET l == (2126 * p[1] + 7152 * p[2] + 722 * p[3]) \div 10000
                   IN  <<l, l, l, p[4]>>])

\* main.rs:47-54  rotate_about_center keeps the canvas; the interpolated
\* content is left open between these outcomes: nothing moved, the half
\* turn, everything rotated out of view (the fill Rgba([0, 0, 0, 0]))
RotateOutcomes(img) ==
    {img,
     MkImage(img.w, img.h,
             [p \in DOMAIN img.px |-> img.px[<<img.w - 1 - p[1], img.h - 1 - p[2]>>]]),
     MkImage(img.w, img.h, [p \in DOMAIN img.px |-> <<0, 0, 0, 0>>])}

RECURSIVE SumChannel(_, _, _)
SumChannel(px, ps, c) ==
    IF ps = {} THEN 0
    ELSE LET p == CHOOSE q \in ps : TRUE
         IN  px[p][c] + SumChannel(px, ps \ {p}, c)

\* main.rs:72-74  gaussian_blur_f32 keeps the size; the content is left open
\* between the limits of a small sigma (unchanged) and a large one (the mean)
BlurOutcomes(img) ==
    IF img.w = 0 \/ img.h = 0 THEN {img}
    ELSE LET n == img.w * img.h
             mean == <<SumChannel(img.px, DOMAIN img.px, 1) \div n,
                       SumChannel(img.px, DOMAIN img.px, 2) \div n,
                       SumChannel(img.px, DOMAIN img.px, 3) \div n,
                       SumChannel(img.px, DOMAIN img.px, 4) \div n>>
         IN  {img, MkImage(img.w, img.h, [p \in DOMAIN img.px |-> mean])}

\* gaussian_blur_f32 asserts sigma > 0.0
BlurPanics(sigma) == ~F32Lt(F32Zero, sigma)

\* main.rs:115
OverlayCheck(img, ov, x, y, checks) ==
    IF checks /\ U32Carry(x, U32(ov.w)) THEN "panic"
    ELSE IF U32Gt(U32WrapAdd(x, U32(ov.w)), U32(img.w)) THEN "err"
    ELSE IF checks /\ U32Carry(y, U32(ov.h)) THEN "panic"
    ELSE IF U32Gt(U32WrapAdd(y, U32(ov.h)), U32(img.h)) THEN "err"
    ELSE "ok"

\* A faulty variant: the base pixel's alpha is kept
BlendPixelKeepsAlpha(b, p) ==
    IF p[4] = 255 THEN <<p[1], p[2], p[3], b[4]>>
    ELSE <<BlendChannel(p[4], b[1], p[1]), BlendChannel(p[4], b[2], p[2]),
           BlendChannel(p[4], b[3], p[3]), b[4]>>

\* main.rs:130-144  the pixel put at the place of base pixel b under overlay
\* pixel p of alpha > 0
BlendPixel(b, p) ==
    IF p[4] = 255 THEN p
    ELSE <<BlendChannel(p[4], b[1], p[1]), BlendChannel(p[4], b[2], p[2]),
           BlendChannel(p[4], b[3], p[3]), 255>>

\* main.rs:126-145  the loop over the overlay's pixels, row by row, from the
\* k-th on.  base is the local copy [w, h, px]; the result is the copy after
\* the loop, or a panic (put_pixel and get_pixel panic outside the buffer;
\* x + i panics in an overflow-checked build)
RECURSIVE OverlayLoop(_, _, _, _, _, _)
OverlayLoop(base, ov, x, y, checks, k) ==
    IF k = ov.w * ov.h THEN [panic |-> FALSE, img |-> base]
    ELSE LET i == k % ov.w
             j == k \div ov.w
             pixel == ov.px[<<i, j>>]
             xpos == U32WrapAdd(x, U32(i))
             ypos == U32WrapAdd(y, U32(j))
             inside == /\ IsSmall(xpos) /\ ToNat(xpos) < base.w
                       /\ IsSmall(ypos) /\ ToNat(ypos) < base.h
             at == <<ToNat(xpos), ToNat(ypos)>>
         IN  IF checks /\ (U32Carry(x, U32(i)) \/ U32Carry(y, U32(j)))
             THEN [panic |-> TRUE, img |-> base]
             ELSE IF pixel[4] = 0 THEN OverlayLoop(base, ov, x, y, checks, k + 1)
             ELSE IF ~inside THEN [panic |-> TRUE, img |-> base]
             ELSE OverlayLoop([base EXCEPT !.px[at] = BlendPixel(base.px[at], pixel)],
                              ov, x, y, checks, k + 1)

(***************************************************************************)
(* The state of a run.                                                     *)
(*   image           the editor's image (ImageProcessor.image)             *)
(*   trace           the operations called so far: their arguments, their  *)
(*                   result and the image before the call                  *)
(*   status          "running", or "panicked" once a call has panicked     *)
(*   overflowChecks  whether the build checks integer overflow (debug      *)
(*                   profile) or wraps (release profile)                   *)
(*   pc, base, ovl, ret, ran   the pipeline of main: its next step, the    *)
(*                   sizes of its two images, its return value and the     *)
(*                   steps it has executed                                 *)
(***************************************************************************)
VARIABLES image, trace, status, overflowChecks, pc, base, ovl, ret, ran

vars == <<image, trace, status, overflowChecks, pc, base, ovl, ret, ran>>

mainVars == <<pc, base, ovl, ret, ran>>

NoU32 == U32(0)

OpRec(op, x, y, w, h, f, ov, res) ==
    [op |-> op, x |-> x, y |-> y, w |-> w, h |-> h, f |-> f, ov |-> ov,
     res |-> res, pre |-> image]

\* The call returns Ok(self) with the image replaced by img
Succeeds(rec, img) ==
    /\ image' = img
    /\ trace' = Append(trace, rec)
    /\ UNCHANGED <<status, overflowChecks, mainVars>>

\* The call returns Err(OperationError) and changes nothing
Fails(rec) ==
    /\ trace' = Append(trace, rec)
    /\ UNCHANGED <<image, status, overflowChecks, mainVars>>

\* The call panics: the thread unwinds, the image as it was
Panics(rec) ==
    /\ trace' = Append(trace, rec)
    /\ status' = "panicked"
    /\ UNCHANGED <<image, overflowChecks, mainVars>>

\* A call can be made: no panic has ended the thread
CanCall == status = "running" /\ pc = "off"

\* main.rs:30-39
Crop(x, y, w, h) ==
    /\ CanCall
    /\ LET c == CropCheck(image, x, y, w, h, overflowChecks)
           rec(res) == OpRec("crop", x, y, w, h, F32Zero, NoImage, res)
       IN  CASE c = "panic" -> Panics(rec("Panic"))
             [] c = "err" -> Fails(rec("Err"))
             [] OTHER -> Succeeds(rec("Ok"), LibCrop(image, x, y, w, h))

\* main.rs:42-57
Rotate(angle) ==
    /\ CanCall
    /\ \E img \in RotateOutcomes(image) :
          Succeeds(OpRec("rotate", NoU32, NoU32, NoU32, NoU32, angle, NoImage, "Ok"), img)

\* main.rs:60-69
AdjustBrightness(factor) ==
    /\ CanCall
    /\ Succeeds(OpRec("adjust_brightness", NoU32, NoU32, NoU32, NoU32, factor, NoImage, "Ok"),
                BrightnessImage(image, factor))

\* main.rs:71-76
Blur(sigma) ==
    /\ CanCall
    /\ LET rec(res) == OpRec("blur", NoU32, NoU32, NoU32, NoU32, sigma, NoImage, res)
       IN  IF BlurPanics(sigma) THEN Panics(rec("Panic"))
           ELSE \E img \in BlurOutcomes(image) : Succeeds(rec("Ok"), img)

\* main.rs:78-81
Grayscale ==
    /\ CanCall
    /\ Succeeds(OpRec("grayscale", NoU32, NoU32, NoU32, NoU32, F32Zero, NoImage, "Ok"),
                GrayscaleImage(image))

\* main.rs:84-93
Invert ==
    /\ CanCall
    /\ Succeeds(OpRec("invert", NoU32, NoU32, NoU32, NoU32, F32Zero, NoImage, "Ok"),
                InvertImage(image))

\* main.rs:96-106
AdjustContrast(factor) ==
    /\ CanCall
    /\ Succeeds(OpRec("adjust_contrast", NoU32, NoU32, NoU32, NoU32, factor, NoImage, "Ok"),
                ContrastImage(image, factor))

\* main.rs:109-149
OverlayImage(ov, x, y) ==
    /\ CanCall
    /\ LET c == OverlayCheck(image, ov, x, y, overflowChecks)
           rec(res) == OpRec("overlay_image", x, y, NoU32, NoU32, F32Zero, ov, res)
       IN  CASE c = "panic" -> Panics(rec("Panic"))
             [] c = "err" -> Fails(rec("Err"))
             [] OTHER ->
                 LET out == OverlayLoop(image, ov, x, y, overflowChecks, 0)
                 IN  IF out.panic THEN Panics(rec("Panic"))
                     ELSE Succeeds(rec("Ok"), out.img)

(***************************************************************************)
(* Spec: an editor on a loaded image, any operations in any order.         *)
(***************************************************************************)
NoSize == [w |-> 0, h |-> 0]

MainOff ==
    /\ pc = "off"
    /\ base = NoSize
    /\ ovl = NoSize
    /\ ret = "none"
    /\ ran = <<>>

InitEditor(images) ==
    /\ image \in images
    /\ trace = <<>>
    /\ status = "running"
    /\ overflowChecks \in BOOLEAN
    /\ MainOff

Init == InitEditor(StartImages)

\* The calls a run makes, each with any of the arguments above
More == CanCall /\ Len(trace) < MaxOps

AnyCrop ==
    More /\ \E x \in Origins, y \in Origins, w \in Sizes, h \in Sizes : Crop(x, y, w, h)

AnyRotate == More /\ \E angle \in Angles : Rotate(angle)

AnyBrightness == More /\ \E factor \in BrightnessFactors : AdjustBrightness(factor)

AnyBlur == More /\ \E sigma \in Sigmas : Blur(sigma)

AnyGrayscale == More /\ Grayscale

AnyInvert == More /\ Invert

AnyContrast == More /\ \E factor \in ContrastFactors : AdjustContrast(factor)

AnyOverlay(kinds) ==
    More /\ \E ov \in OverlaysOf(kinds), x \in Origins, y \in Origins : OverlayImage(ov, x, y)

AnyBlend == More /\ \E ov \in BlendOverlays : OverlayImage(ov, U32(0), U32(0))

Next ==
    \/ AnyCrop
    \/ AnyRotate
    \/ AnyBrightness
    \/ AnyBlur
    \/ AnyGrayscale
    \/ AnyInvert
    \/ AnyContrast
    \/ AnyOverlay({"mixed", "partial"})

Spec == Init /\ [][Next]_vars

(***************************************************************************)
(* One call on each start image, for the claims about a single operation.  *)
(***************************************************************************)
NextCrop ==
    /\ trace = <<>>
    /\ AnyCrop

SpecCrop == Init /\ [][NextCrop]_vars

NextOverlay ==
    /\ trace = <<>>
    /\ AnyOverlay({"opaque", "transparent", "mixed"})

SpecOverlay == Init /\ [][NextOverlay]_vars

InitChannels == InitEditor(ChannelImages)

NextBlend ==
    /\ trace = <<>>
    /\ AnyBlend

SpecBlend == InitChannels /\ [][NextBlend]_vars

NextBrightness ==
    /\ trace = <<>>
    /\ AnyBrightness

SpecBrightness == InitChannels /\ [][NextBrightness]_vars

NextContrast ==
    /\ trace = <<>>
    /\ AnyContrast

SpecContrast == InitChannels /\ [][NextContrast]_vars

\* invert called again and again
InitInvert == InitEditor(ChannelImages \cup StartImages)

NextInvert == AnyInvert

SpecInvert == InitInvert /\ [][NextInvert]_vars

(***************************************************************************)
(* SpecMain: the pipeline of main (main.rs:165-187).  Each step is a call  *)
(* followed by `?`.  The two files are the environment: each is unreadable *)
(* or holds an image of some size; the pixels play no part in which steps  *)
(* run, so base and ovl hold the sizes only.                               *)
(***************************************************************************)
MainCropX == 100

MainCropY == 100

MainCropWidth == 500

MainCropHeight == 500

MainOverlayX == 100

MainOverlayY == 100

FileSizes == {99, 100, 599, 600, 601}

Files ==
    {[readable |-> FALSE, w |-> 0, h |-> 0]}
        \cup {[readable |-> TRUE, w |-> w, h |-> h] : w \in FileSizes, h \in FileSizes}

Pipeline == <<"load_base", "load_overlay", "crop", "overlay", "save">>

\* The step returned Ok: main goes on to the next step
StepOk(step, next) ==
    /\ pc' = next
    /\ ran' = Append(ran, [step |-> step, res |-> "Ok"])
    /\ ret' = IF next = "done" THEN "Ok" ELSE ret

\* The step returned Err(err): `?` returns it from main
StepErr(step, err) ==
    /\ pc' = "done"
    /\ ran' = Append(ran, [step |-> step, res |-> err])
    /\ ret' = err

\* main.rs:167  ImageProcessor::new("base_image.png")?
MainLoadBase ==
    /\ pc = "load_base"
    /\ \E f \in Files :
          IF ~f.readable
          THEN StepErr("load_base", "LoadError") /\ UNCHANGED <<base, ovl>>
          ELSE /\ StepOk("load_base", "load_overlay")
               /\ base' = [w |-> f.w, h |-> f.h]
               /\ UNCHANGED ovl
    /\ UNCHANGED <<image, trace, status, overflowChecks>>

\* main.rs:177  ImageProcessor::new("overlay_image.png")?
MainLoadOverlay ==
    /\ pc = "load_overlay"
    /\ \E f \in Files :
          IF ~f.readable
          THEN StepErr("load_overlay", "LoadError") /\ UNCHANGED <<base, ovl>>
          ELSE /\ StepOk("load_overlay", "crop")
               /\ ovl' = [w |-> f.w, h |-> f.h]
               /\ UNCHANGED base
    /\ UNCHANGED <<image, trace, status, overflowChecks>>

\* A faulty variant: the crop's result is dropped (no `?`), main goes on
MainCropIgnoresError ==
    /\ pc = "crop"
    /\ LET x == U32(MainCropX)
           y == U32(MainCropY)
           w == U32(MainCropWidth)
           h == U32(MainCropHeight)
           d == CropDimms(ovl, x, y, w, h)
       IN  IF CropCheck(ovl, x, y, w, h, overflowChecks) = "ok"
           THEN /\ pc' = "overlay"
                /\ ran' = Append(ran, [step |-> "crop", res |-> "Ok"])
                /\ ovl' = [w |-> d[3], h |-> d[4]]
           ELSE /\ pc' = "overlay"
                /\ ran' = Append(ran, [step |-> "crop", res |-> "OperationError"])
                /\ UNCHANGED ovl
    /\ UNCHANGED <<image, trace, status, overflowChecks, base, ret>>

\* main.rs:178  overlay.crop(100, 100, 500, 500)?
MainCrop ==
    /\ pc = "crop"
    /\ LET x == U32(MainCropX)
           y == U32(MainCropY)
           w == U32(MainCropWidth)
           h == U32(MainCropHeight)
           d == CropDimms(ovl, x, y, w, h)
       IN  IF CropCheck(ovl, x, y, w, h, overflowChecks) = "ok"
           THEN StepOk("crop", "overlay") /\ ovl' = [w |-> d[3], h |-> d[4]]
           ELSE StepErr("crop", "OperationError") /\ UNCHANGED ovl
    /\ UNCHANGED <<image, trace, status, overflowChecks, base>>

\* main.rs:181  processor.overlay_image(overlay.get_image(), 100, 100)?
MainOverlay ==
    /\ pc = "overlay"
    /\ IF OverlayCheck(base, ovl, U32(MainOverlayX), U32(MainOverlayY), overflowChecks) = "ok"
       THEN StepOk("overlay", "save")
       ELSE StepErr("overlay", "OperationError")
    /\ UNCHANGED <<image, trace, status, overflowChecks, base, ovl>>

\* main.rs:184  processor.save("output.png")?  and  Ok(())
MainSave ==
    /\ pc = "save"
    /\ \E written \in BOOLEAN :
          IF written THEN StepOk("save", "done") ELSE StepErr("save", "OperationError")
    /\ UNCHANGED <<image, trace, status, overflowChecks, base, ovl>>

InitMain ==
    /\ image = NoImage
    /\ trace = <<>>
    /\ status = "running"
    /\ overflowChecks \in BOOLEAN
    /\ pc = "load_base"
    /\ base = NoSize
    /\ ovl = NoSize
    /\ ret = "none"
    /\ ran = <<>>

NextMain == MainLoadBase \/ MainLoadOverlay \/ MainCrop \/ MainOverlay \/ MainSave

SpecMain == InitMain /\ [][NextMain]_vars

(***************************************************************************)
(* The claims.                                                             *)
(***************************************************************************)
Called(op) == trace # <<>> /\ trace[Len(trace)].op = op

Last == trace[Len(trace)]

\* The image after the k-th call of the trace
After(k) == IF k = Len(trace) THEN image ELSE trace[k + 1].pre

\* The integer x + w is above bound (bound < 2^16): the region leaves the image
Exceeds(x, w, bound) == x[1] > 0 \/ w[1] > 0 \/ x[2] + w[2] > bound

CropOutside == Exceeds(Last.x, Last.w, Last.pre.w) \/ Exceeds(Last.y, Last.h, Last.pre.h)

OverlayOutside ==
    \/ Exceeds(Last.x, U32(Last.ov.w), Last.pre.w)
    \/ Exceeds(Last.y, U32(Last.ov.h), Last.pre.h)

SameAlphaAndSize(a, b) ==
    /\ a.w = b.w
    /\ a.h = b.h
    /\ DOMAIN a.px = DOMAIN b.px
    /\ \A p \in DOMAIN a.px : a.px[p][4] = b.px[p][4]

\* C1: a crop or an overlay whose region leaves the image returns
\* OperationError and leaves the image as it was.
RejectedRegionLeavesImage ==
    /\ Called("crop") /\ CropOutside => Last.res = "Err" /\ image = Last.pre
    /\ Called("overlay_image") /\ OverlayOutside => Last.res = "Err" /\ image = Last.pre

\* C2: a crop whose region lies in the image succeeds, the result has the
\* size asked for, and its pixel (i, j) is the original's pixel (x+i, y+j).
CropTakesRegion ==
    Called("crop") /\ ~CropOutside =>
        /\ Last.res = "Ok"
        /\ image.w = ToNat(Last.w)
        /\ image.h = ToNat(Last.h)
        /\ DOMAIN image.px = Positions(ToNat(Last.w), ToNat(Last.h))
        /\ \A p \in DOMAIN image.px :
              image.px[p] = Last.pre.px[<<ToNat(Last.x) + p[1], ToNat(Last.y) + p[2]>>]

\* A crop at an offset, of a region smaller than the image, has succeeded.
CropTakesRegionWitness ==
    /\ Called("crop")
    /\ ~CropOutside
    /\ Last.res = "Ok"
    /\ Last.x = U32(1)
    /\ Last.w = U32(1)
    /\ Last.h = U32(1)
    /\ Last.pre.h = 2
    /\ image.px[<<0, 0>>] = Last.pre.px[<<1, ToNat(Last.y)>>]

\* The overlay pixel over base position p, for an overlay inside the image
InFootprint(p) ==
    /\ p[1] >= ToNat(Last.x) /\ p[1] < ToNat(Last.x) + Last.ov.w
    /\ p[2] >= ToNat(Last.y) /\ p[2] < ToNat(Last.y) + Last.ov.h

SourceOver(p) == Last.ov.px[<<p[1] - ToNat(Last.x), p[2] - ToNat(Last.y)>>]

\* C3: an overlay inside the image whose pixels have alpha 0 or 255 puts its
\* opaque pixels (alpha 255) in place of the base pixels under them and
\* changes no other pixel, nor the size.
OverlayOpaqueOrTransparent ==
    /\ Called("overlay_image")
    /\ ~OverlayOutside
    /\ \A q \in DOMAIN Last.ov.px : Last.ov.px[q][4] \in {0, 255}
    =>  /\ Last.res = "Ok"
        /\ image.w = Last.pre.w
        /\ image.h = Last.pre.h
        /\ DOMAIN image.px = DOMAIN Last.pre.px
        /\ \A p \in DOMAIN image.px :
              IF InFootprint(p) /\ SourceOver(p)[4] = 255
              THEN image.px[p] = <<SourceOver(p)[1], SourceOver(p)[2], SourceOver(p)[3], 255>>
              ELSE image.px[p] = Last.pre.px[p]

\* An overlay of opaque and transparent pixels was put at an offset: it has
\* replaced one pixel, a pixel under it is kept, and so is one beside it.
OverlayOpaqueOrTransparentWitness ==
    /\ Called("overlay_image")
    /\ ~OverlayOutside
    /\ Last.res = "Ok"
    /\ Last.x = U32(1)
    /\ \A q \in DOMAIN Last.ov.px : Last.ov.px[q][4] \in {0, 255}
    /\ \E p \in DOMAIN image.px :
          InFootprint(p) /\ SourceOver(p)[4] = 255 /\ image.px[p] # Last.pre.px[p]
    /\ \E p \in DOMAIN image.px : InFootprint(p) /\ SourceOver(p)[4] = 0
    /\ \E p \in DOMAIN image.px : ~InFootprint(p)

\* floor(((255 - a) * b + a * s) / 255): the interpolation, truncated
Interpolated(a, b, s) == ((255 - a) * b + a * s) \div 255

Between(v, b, s) == (b <= v /\ v <= s) \/ (s <= v /\ v <= b)

\* C4: under an overlay pixel of alpha strictly between 0 and 255 the base
\* pixel gets alpha 255 and each colour channel becomes the interpolation
\* (1-a)*base + a*source, a = alpha/255, truncated: a value between the
\* base's and the source's.
BlendInterpolates ==
    Called("overlay_image") /\ ~OverlayOutside =>
        \A p \in DOMAIN image.px :
            InFootprint(p) /\ SourceOver(p)[4] \in 1 .. 254 =>
                /\ image.px[p][4] = 255
                /\ \A c \in 1 .. 3 :
                      /\ image.px[p][c] =
                            Interpolated(SourceOver(p)[4], Last.pre.px[p][c], SourceOver(p)[c])
                      /\ Between(image.px[p][c], Last.pre.px[p][c], SourceOver(p)[c])

IsInvert(k) == k \in 1 .. Len(trace) /\ trace[k].op = "invert"

\* C5: invert leaves alpha and size as they were, and a second invert right
\* after the first gives every colour channel its value of before the first.
InvertTwiceRestores ==
    /\ \A k \in 1 .. Len(trace) :
          IsInvert(k) => SameAlphaAndSize(After(k), trace[k].pre)
    /\ \A k \in 1 .. Len(trace) :
          IsInvert(k) /\ IsInvert(k + 1) =>
              \A p \in DOMAIN trace[k].pre.px : \A c \in 1 .. 3 :
                  After(k + 1).px[p][c] = trace[k].pre.px[p][c]

\* invert has been called twice in a row on an image that the first call changed.
InvertTwiceRestoresWitness ==
    /\ Len(trace) >= 2
    /\ IsInvert(1)
    /\ IsInvert(2)
    /\ trace[1].pre.w = MaxDim
    /\ \A p \in DOMAIN image.px : \A c \in 1 .. 3 : trace[2].pre.px[p][c] # image.px[p][c]

\* <<floor(v * |f|), whether v * |f| is an integer>> for a number f below 4096
ExactProduct(v, f) ==
    LET a == v * (f.m \div 4096)
        b == v * (f.m % 4096)
        n == a + (b \div 4096)
        t == (0 - f.e) - 12
    IN  IF t > 30 THEN <<0, v = 0>>
        ELSE <<n \div (2 ^ t), b % 4096 = 0 /\ n % (2 ^ t) = 0>>

Clamp(n) == IF n > 255 THEN 255 ELSE n

\* value * factor clamped to [0, 255], as an 8-bit channel can hold it
BrightnessOf(v, f, out) ==
    IF v = 0 \/ f.k = "zero" \/ f.s = 1 THEN out = 0
    ELSE IF f.k = "inf" \/ f.e > -12 THEN out = 255
    ELSE LET e == ExactProduct(v, f)
         IN  IF e[2] THEN out = Clamp(e[1])
             ELSE out \in {Clamp(e[1]), Clamp(e[1] + 1)}

\* C6: adjust_brightness(factor) sets R, G and B to value*factor clamped to
\* [0,255] (the integer it is, else one of the two integers around it; 0 for
\* a negative factor, 255 for a product above 255) and leaves alpha as it
\* was; factor 1.0 changes nothing and factor 2.0 doubles 10 to 20.
BrightnessScalesAndClamps ==
    Called("adjust_brightness") =>
        /\ Last.res = "Ok"
        /\ SameAlphaAndSize(image, Last.pre)
        /\ \A p \in DOMAIN image.px : \A c \in 1 .. 3 :
              /\ image.px[p][c] \in 0 .. 255
              /\ BrightnessOf(Last.pre.px[p][c], Last.f, image.px[p][c])
        /\ Last.f = F32OfOne => image = Last.pre
        /\ Last.f = F32Round(0, 2, 0) /\ Last.pre = PixelImage(<<10, 10, 10, 255>>)
              => image = PixelImage(<<20, 20, 20, 255>>)

\* adjust_brightness(2.0) has mapped (10,10,10,255) to (20,20,20,255).
BrightnessScalesAndClampsWitness ==
    /\ Called("adjust_brightness")
    /\ Last.f = F32Round(0, 2, 0)
    /\ Last.pre = PixelImage(<<10, 10, 10, 255>>)
    /\ image = PixelImage(<<20, 20, 20, 255>>)

\* C7: adjust_contrast(1.0) gives every colour channel the value it had,
\* adjust_contrast(0.0) maps every colour channel to 127 or 128, and alpha
\* is as it was.
ContrastOneIsIdentity ==
    Called("adjust_contrast") =>
        /\ SameAlphaAndSize(image, Last.pre)
        /\ Last.f = F32OfOne => image = Last.pre
        /\ Last.f = F32Zero =>
              \A p \in DOMAIN image.px : \A c \in 1 .. 3 : image.px[p][c] \in {127, 128}

\* C8: after any calls, failed or not, the image has width > 0 and height > 0.
SizeStaysPositive == pc = "off" => image.w > 0 /\ image.h > 0

StepFailed(k) == ran[k].res # "Ok"

\* C9: main runs its steps in order and stops at the first that fails: no
\* step runs after a failed one, save runs only after the two loads, the
\* crop and the overlay succeeded, and main returns the first error.
MainStopsAtFirstFailure ==
    /\ Len(ran) <= Len(Pipeline)
    /\ \A k \in 1 .. Len(ran) :
          /\ ran[k].step = Pipeline[k]
          /\ ran[k].res \in
                (IF ran[k].step \in {"load_base", "load_overlay"}
                 THEN {"Ok", "LoadError"} ELSE {"Ok", "OperationError"})
          /\ StepFailed(k) => k = Len(ran) /\ pc = "done" /\ ret = ran[k].res
    /\ pc = "done" => ran # <<>> /\ ret = ran[Len(ran)].res
    /\ pc \notin {"done", "off"} => ret = "none" /\ pc = Pipeline[Len(ran) + 1]
    /\ ret = "Ok" => Len(ran) = Len(Pipeline)

\* The crop failed after both loads succeeded, and main returned its error
\* without running the overlay or the save.
MainStopsAtFirstFailureWitness ==
    /\ pc = "done"
    /\ Len(ran) = 3
    /\ ran[3] = [step |-> "crop", res |-> "OperationError"]
    /\ ret = "OperationError"

\* C10: the bounds checks compare the integer sums x+width and y+height with
\* the image size over the whole 32-bit range: a region that leaves the
\* image is refused with OperationError, also when the 32-bit sum wraps.
BoundsCheckOverWholeRange ==
    /\ Called("crop") /\ CropOutside => Last.res = "Err"
    /\ Called("overlay_image") /\ OverlayOutside => Last.res = "Err"

=============================================================================
